---- MODULE Spec2Model ----
(***************************************************************************)
(* Model of slack-quake-alert: the intensity classifier (utils/intensity), *)
(* configuration loading (config/env), the stream client wrapper           *)
(* (services/p2pquake), the Slack sender (services/slack), the message     *)
(* formatter (utils/formatter) and the orchestrator's main() (index.ts).   *)
(*                                                                         *)
(* JavaScript values that may be a number or something else are records    *)
(* [type, num]; optional values are sequences of length 0 or 1.  Japanese  *)
(* text of the source is written in romaji (5jaku = 5-weak, 5kyou =        *)
(* 5-strong, shindo = intensity, fumei = unknown, kunren = training).       *)
(***************************************************************************)
EXTENDS Integers, Sequences, FiniteSets, TLC

VARIABLES
  env,        \* process.env: the variables config/env.ts reads
  config,     \* the exported config object, <<>> until loadConfig returns
  pc,         \* position of the process in module load / main()
  exitCode,   \* <<>> while running, <<code>> after process.exit / a fatal signal
  client,     \* P2PQuakeService.client: <<>> before construction, else <<[url, conn]>>
  handlers,   \* quakeHandler / tsunamiHandler / eewHandler slots, by category
  listeners,  \* process events that have a listener installed by main()
  events,     \* frames dispatched so far, each with the progress of its handler
  log,        \* process-level log entries (not tied to one frame)
  calls,      \* lifecycle calls made so far, in order
  call,       \* last call of a pure classifier function (SpecClassifier only)
  signal,     \* the termination signal delivered to the process, <<>> if none
  fault       \* the last uncaught fault raised in the process, <<>> if none

vars == <<env, config, pc, exitCode, client, handlers, listeners, events, log, calls, call, signal, fault>>

(***************************************************************************)
(* Bounds                                                                  *)
(***************************************************************************)
MaxFrames == 2        \* frames dispatched in the process model
MaxClientFrames == 1  \* frames dispatched to a stream client used on its own
MaxCalls == 3         \* calls a caller makes on a stream client used on its own

(***************************************************************************)
(* JavaScript values                                                       *)
(***************************************************************************)
Num(n) == [type |-> "number", num |-> n]
Undefined == [type |-> "undefined", num |-> 0]
Inherited(t) == [type |-> t, num |-> 0]

None == <<>>
Some(x) == <<x>>

(***************************************************************************)
(* utils/intensity.ts                                                      *)
(***************************************************************************)
\* keys of INTENSITY_MAP: the SeismicIntensity ordinals
SeismicIntensity == {-1, 0, 10, 20, 30, 40, 45, 50, 55, 60, 70, 99}

STRING_TO_INTENSITY ==
  [s \in {"1", "2", "3", "4", "5-", "5jaku", "5+", "5kyou", "6-", "6jaku", "6+", "6kyou", "7"} |->
     CASE s = "1" -> 10
       [] s = "2" -> 20
       [] s = "3" -> 30
       [] s = "4" -> 40
       [] s \in {"5-", "5jaku"} -> 45
       [] s \in {"5+", "5kyou"} -> 50
       [] s \in {"6-", "6jaku"} -> 55
       [] s \in {"6+", "6kyou"} -> 60
       [] s = "7" -> 70]

\* STRING_TO_INTENSITY is an object literal, so its prototype is
\* Object.prototype; a bracket lookup also finds the inherited members.
ObjectPrototypeFunctions ==
  {"constructor", "hasOwnProperty", "isPrototypeOf", "propertyIsEnumerable",
   "toLocaleString", "toString", "valueOf"}
ObjectPrototypeObjects == {"__proto__"}

\* STRING_TO_INTENSITY[str]
Lookup(str) ==
  IF str \in DOMAIN STRING_TO_INTENSITY THEN Num(STRING_TO_INTENSITY[str])
  ELSE IF str \in ObjectPrototypeFunctions THEN Inherited("function")
  ELSE IF str \in ObjectPrototypeObjects THEN Inherited("object")
  ELSE Undefined

ValidValuesMessage == "Valid values: 1, 2, 3, 4, 5-, 5+, 6-, 6+, 7"

\* parseIntensityString: [threw, value, message]
parseIntensityString(str) ==
  LET intensity == Lookup(str) IN
    IF intensity = Undefined
    THEN [threw |-> TRUE, value |-> Undefined, message |-> ValidValuesMessage]
    ELSE [threw |-> FALSE, value |-> intensity, message |-> ""]

\* intensity >= threshold, where threshold is whatever config.minIntensity holds:
\* a function or object converts to NaN and every comparison with NaN is false
GreaterOrEqual(intensity, threshold) ==
  IF threshold.type = "number" THEN intensity >= threshold.num ELSE FALSE

shouldNotifyNoSentinel(intensity, threshold) ==
  IF intensity < 0 THEN FALSE ELSE GreaterOrEqual(intensity, threshold)

shouldNotify(intensity, threshold) ==
  IF intensity < 0 \/ intensity = 99 THEN FALSE
  ELSE GreaterOrEqual(intensity, threshold)

\* INTENSITY_MAP[intensity] || 'fumei'
intensityToString(intensity) ==
  CASE intensity = 0 -> "shindo 0"
    [] intensity = 10 -> "shindo 1"
    [] intensity = 20 -> "shindo 2"
    [] intensity = 30 -> "shindo 3"
    [] intensity = 40 -> "shindo 4"
    [] intensity = 45 -> "shindo 5 jaku"
    [] intensity = 50 -> "shindo 5 kyou"
    [] intensity = 55 -> "shindo 6 jaku"
    [] intensity = 60 -> "shindo 6 kyou"
    [] intensity = 70 -> "shindo 7"
    [] intensity = 99 -> "ijou"
    [] OTHER -> "fumei"

(***************************************************************************)
(* utils/formatter.ts (the definitions in effect: the later ones)          *)
(* A block is [type, role, fields, image]; times and names are not         *)
(* rendered, a field is the label of the fact it shows.                    *)
(***************************************************************************)
Null == [type |-> "null", num |-> 0]

\* more: the count a block's text reports as left out of its list, 0 if none
Block(type, role, fields, image) ==
  [type |-> type, role |-> role, fields |-> fields, image |-> image, more |-> 0]
Divider == Block("divider", "divider", <<>>, "")

Returned(blocks) == [threw |-> FALSE, blocks |-> blocks]
TypeError == [threw |-> TRUE, blocks |-> <<>>]

getIntensityImageUrl(intensity) ==
  IF intensity >= 55 THEN "circle_red.png"
  ELSE IF intensity >= 45 THEN "circle_orange.png"
  ELSE IF intensity >= 30 THEN "circle_yellow.png"
  ELSE "mega.png"

getTsunamiGradeImageUrl(grade) ==
  CASE grade = "MajorWarning" -> "circle_red.png"
    [] grade = "Warning" -> "circle_orange.png"
    [] grade = "Watch" -> "circle_yellow.png"
    [] OTHER -> ""

getTsunamiGradeText(grade) ==
  CASE grade = "MajorWarning" -> "ootsunami keihou"
    [] grade = "Warning" -> "tsunami keihou"
    [] grade = "Watch" -> "tsunami chuuihou"
    [] grade = "Unknown" -> "fumei"
    [] OTHER -> grade

\* the optional-chained reads of hypocenter fields
HypoName(eq) == IF eq.hypocenter = None THEN None ELSE eq.hypocenter[1].name
HypoMagnitude(eq) == IF eq.hypocenter = None THEN Undefined ELSE eq.hypocenter[1].magnitude
HypoDepth(eq) == IF eq.hypocenter = None THEN Undefined ELSE eq.hypocenter[1].depth

\* value >= 0 for a number or null (null converts to 0)
NonNegative(v) == IF v.type = "number" THEN v.num >= 0 ELSE v.type = "null"

MaxDisplay == 10

\* the distinct scales of points, in order of first appearance (Map key order)
RECURSIVE GroupKeys(_)
GroupKeys(points) ==
  IF points = <<>> THEN <<>>
  ELSE LET rest == GroupKeys(SubSeq(points, 1, Len(points) - 1))
           k == points[Len(points)].scale
       IN IF \E i \in 1..Len(rest) : rest[i] = k THEN rest ELSE Append(rest, k)

\* grouped.get(intensity): the addresses of that scale, in original order
GroupOfByLabel(points, intensity) ==
  SelectSeq(points, LAMBDA p : intensityToString(p.scale) = intensityToString(intensity))

GroupOf(points, intensity) ==
  SelectSeq(points, LAMBDA p : p.scale = intensity)

\* Array.sort((a, b) => b - a) over distinct keys
RECURSIVE SortDescending(_)
SortDescending(keys) ==
  IF keys = <<>> THEN <<>>
  ELSE LET m == CHOOSE i \in 1..Len(keys) : \A j \in 1..Len(keys) : keys[i] >= keys[j]
       IN <<keys[m]>> \o SortDescending(SubSeq(keys, 1, m - 1) \o SubSeq(keys, m + 1, Len(keys)))

\* one line per group: [intensity, label, locations, remaining]
formatObservationPoints(points) ==
  LET sortedIntensities == SortDescending(GroupKeys(points))
      Line(intensity) ==
        LET locations == GroupOf(points, intensity) IN
          IF Len(locations) <= MaxDisplay
          THEN [intensity |-> intensity, label |-> intensityToString(intensity),
                locations |-> [i \in 1..Len(locations) |-> locations[i].addr],
                remaining |-> 0]
          ELSE [intensity |-> intensity, label |-> intensityToString(intensity),
                locations |-> [i \in 1..MaxDisplay |-> locations[i].addr],
                remaining |-> Len(locations) - MaxDisplay]
  IN [g \in 1..Len(sortedIntensities) |-> Line(sortedIntensities[g])]

\* blocks.findIndex(block => block.type === 'section' && 'fields' in block), 1-based, 0 if none
FindFieldsIndexNone(blocks) ==
  IF \E i \in 1..Len(blocks) : blocks[i].type = "fields"
  THEN CHOOSE i \in 1..Len(blocks) : blocks[i].type = "fields"
  ELSE 0

FindFieldsIndex(blocks) ==
  IF \E i \in 1..Len(blocks) : blocks[i].role = "fields"
  THEN CHOOSE i \in 1..Len(blocks) :
         /\ blocks[i].role = "fields"
         /\ \A j \in 1..(i - 1) : blocks[j].role # "fields"
  ELSE 0

formatQuakeMessage(quake) ==
  IF quake.earthquake = None THEN TypeError
  ELSE
    LET eq == quake.earthquake[1]
        maxIntensity == eq.maxScale
        magnitude == HypoMagnitude(eq)
        depth == HypoDepth(eq)
        earthquakeInfo ==
          <<"Occurrence Time">>
          \o (IF HypoName(eq) # None THEN <<"Epicenter">> ELSE <<>>)
          \o (IF magnitude # Undefined
              THEN <<IF NonNegative(magnitude) THEN "Magnitude" ELSE "Magnitude Unknown">>
              ELSE <<>>)
          \o (IF depth # Undefined
              THEN <<IF NonNegative(depth) THEN "Depth" ELSE "Depth Unknown">>
              ELSE <<>>)
          \o (IF eq.domesticTsunami # None THEN <<"Tsunami">> ELSE <<>>)
        blocks ==
          << Block("section", "header", <<"Earthquake Information">>, "rotating_light.png"),
             Block("section", "summary", <<"An earthquake occurred">>, ""),
             Divider,
             Block("section", "fields", earthquakeInfo, "") >>
          \o (IF Len(quake.points) > 0
              THEN << Divider,
                      Block("section", "points",
                            [g \in 1..Len(formatObservationPoints(quake.points)) |->
                               formatObservationPoints(quake.points)[g].label], "") >>
              ELSE <<>>)
          \o << Divider, Block("context", "footer", <<"Information Release Time">>, "") >>
        intensityBlock ==
          Block("section", "max-intensity", <<intensityToString(maxIntensity)>>,
                getIntensityImageUrl(maxIntensity))
        earthquakeInfoIndex == FindFieldsIndex(blocks)
    IN \* magnitude.toFixed(1) on null: null !== undefined and null >= 0 both hold
       IF magnitude = Null THEN TypeError
       ELSE IF earthquakeInfoIndex >= 1
       THEN Returned(SubSeq(blocks, 1, earthquakeInfoIndex - 1) \o <<intensityBlock>>
                     \o SubSeq(blocks, earthquakeInfoIndex, Len(blocks)))
       ELSE Returned(Append(blocks, intensityBlock))

\* `if (tsunami.cancelled)`: the cancellation notice
CancelledNoticeAlways(tsunami) ==
  <<Block("section", "cancelled", <<"This tsunami information has been cancelled">>, "")>>

CancelledNotice(tsunami) ==
  IF tsunami.cancelled
  THEN <<Block("section", "cancelled", <<"This tsunami information has been cancelled">>, "")>>
  ELSE <<>>

\* the section of one area: its name, grade text, evacuation note and grade image
AreaBlock(area) ==
  Block("section", "area",
        <<area[1].name, getTsunamiGradeText(area[1].grade)>>
        \o (IF area[1].immediate THEN <<"Evacuate immediately">> ELSE <<>>),
        getTsunamiGradeImageUrl(area[1].grade))

\* tsunami.areas.forEach: one section per area
TsunamiAreaBlocksCapped(areas) ==
  [i \in 1..(IF Len(areas) > MaxDisplay THEN MaxDisplay ELSE Len(areas)) |->
     IF areas[i] = None THEN Divider ELSE AreaBlock(areas[i])]

TsunamiAreaBlocks(areas) ==
  [i \in 1..Len(areas) |-> IF areas[i] = None THEN Divider ELSE AreaBlock(areas[i])]

formatTsunamiMessage(tsunami) ==
  LET blocks ==
        << Block("section", "header", <<"Tsunami Information">>, "ocean.png"),
           Block("section", "summary", <<"Tsunami information has been issued">>, ""),
           Divider >>
        \o CancelledNotice(tsunami)
        \o TsunamiAreaBlocks(tsunami.areas)
        \o << Divider, Block("context", "footer", <<"Information Release Time">>, "") >>
  IN \* area.grade on a null entry of areas
     IF \E i \in 1..Len(tsunami.areas) : tsunami.areas[i] = None THEN TypeError
     ELSE Returned(blocks)

\* eew.areas?.reduce((max, area) => Math.max(max, area.scaleTo || 0), 0) || 0
RECURSIVE MaxScaleTo(_)
MaxScaleTo(areas) ==
  IF areas = <<>> THEN 0
  ELSE LET m == MaxScaleTo(SubSeq(areas, 1, Len(areas) - 1))
           s == areas[Len(areas)].scaleTo
       IN IF s > m THEN s ELSE m

MaxAreas == 15

\* eew.areas.slice(0, 15)
ShownAreasAll(areas) == areas

ShownAreas(areas) ==
  SubSeq(areas, 1, IF Len(areas) > MaxAreas THEN MaxAreas ELSE Len(areas))

\* one line of the area list: the name and the intensity text (0 stands for a
\* bound that is 0 or absent: both are falsy); frames carry no arrivalTime
AreaLine(area) ==
  [name |-> area.name,
   text |-> <<IF area.scaleFrom # 0 THEN intensityToString(area.scaleFrom)
              ELSE "yosoku shindo fumei">>
            \o (IF area.scaleTo # 0 /\ area.scaleTo # area.scaleFrom
                THEN <<"~", intensityToString(area.scaleTo)>> ELSE <<>>)]

formatEEWMessage(eew) ==
  LET isCancelled == eew.cancelled
      isTest == eew.test
      maxPredictedIntensity == MaxScaleTo(eew.areas)
      isWarning == maxPredictedIntensity >= 50
      imageFilename ==
        IF isCancelled THEN "no.png"
        ELSE IF isTest THEN "mega.png"
        ELSE IF isWarning THEN "warning.png" ELSE "mega.png"
      title ==
        IF isCancelled THEN "kinkyuu jishin sokuhou (cancel)"
        ELSE IF isTest THEN "kinkyuu jishin sokuhou (kunren)" ELSE "kinkyuu jishin sokuhou"
      alertText ==
        IF isCancelled THEN "sokuhou ga cancel saremashita"
        ELSE IF isTest THEN "**kore wa kunren desu**"
        ELSE IF isWarning THEN "**tsuyoi yure ni keikai shite kudasai**"
        ELSE "sokuhou wo jushin shimashita"
      eq == eew.earthquake
      magnitude == IF eq = None THEN Undefined ELSE HypoMagnitude(eq[1])
      depth == IF eq = None THEN Undefined ELSE HypoDepth(eq[1])
      eewInfo ==
        (IF eq # None /\ eq[1].originTime # None THEN <<"hassei jikoku">> ELSE <<>>)
        \o (IF eq # None /\ HypoName(eq[1]) # None THEN <<"shingenchi">> ELSE <<>>)
        \o (IF magnitude # Undefined /\ NonNegative(magnitude) THEN <<"magnitude">> ELSE <<>>)
        \o (IF depth # Undefined /\ NonNegative(depth) THEN <<"fukasa">> ELSE <<>>)
      shown == ShownAreas(eew.areas)
      blocks ==
        << Block("section", "header", <<title>>, imageFilename),
           Block("section", "summary", <<alertText>>, IF isWarning THEN "warning.png" ELSE ""),
           Divider >>
        \o (IF maxPredictedIntensity > 0
            THEN <<Block("section", "max-intensity", <<intensityToString(maxPredictedIntensity)>>,
                         getIntensityImageUrl(maxPredictedIntensity))>>
            ELSE <<>>)
        \o (IF Len(eewInfo) > 0 THEN <<Block("section", "fields", eewInfo, "")>> ELSE <<>>)
        \o (IF Len(eew.areas) > 0 /\ ~isCancelled
            THEN << Divider,
                    [Block("section", "areas",
                           [i \in 1..Len(shown) |-> AreaLine(shown[i])], "")
                       EXCEPT !.more = IF Len(eew.areas) > MaxAreas
                                       THEN Len(eew.areas) - MaxAreas ELSE 0] >>
            ELSE <<>>)
        \o << Divider,
              Block("context", "footer", <<IF isTest THEN "kunren" ELSE "serial">>, "") >>
  IN \* eew.issue.serial on a frame without issue, unless isTest short-circuits it
     IF magnitude = Null THEN TypeError
     ELSE IF ~isTest /\ eew.issue = None THEN TypeError
     ELSE Returned(blocks)

(***************************************************************************)
(* utils/logger.ts                                                         *)
(***************************************************************************)
\* (process.env.NODE_ENV?.trim() || 'development').toLowerCase() === 'development'
isDevelopment == env.NODE_ENV = None \/ env.NODE_ENV = Some("development")

LogLevel(level) ==
  CASE level = "ERROR" -> 0 [] level = "WARN" -> 1 [] level = "INFO" -> 2 [] level = "DEBUG" -> 3

shouldLog(level) == LogLevel(level) <= (IF isDevelopment THEN 3 ELSE 2)

\* the entries one logger call adds to the output
Emit(level, msg) == IF shouldLog(level) THEN {[level |-> level, msg |-> msg]} ELSE {}

\* logger.error(msg, error) behind `if (error instanceof Error)`
EmitIfError(thrown, msg) == IF thrown = "Error" THEN Emit("ERROR", msg) ELSE {}

(***************************************************************************)
(* config/env.ts                                                           *)
(***************************************************************************)
StartsWithXoxb(s) == s \in {"xoxb-1"}
MatchesChannelId(s) == s \in {"C0123456789"}
IsUrl(s) == s \in {"https://img.example"}

\* envSchema.parse: <<>> when a ZodError is thrown, else the parsed values
envSchemaParse(e) ==
  IF /\ e.SLACK_BOT_TOKEN # None /\ StartsWithXoxb(e.SLACK_BOT_TOKEN[1])
     /\ e.SLACK_CHANNEL_ID # None /\ MatchesChannelId(e.SLACK_CHANNEL_ID[1])
     /\ e.NODE_ENV \in {None, Some("development"), Some("production")}
     /\ (e.GITHUB_IMAGE_BASE_URL # None => IsUrl(e.GITHUB_IMAGE_BASE_URL[1]))
  THEN Some([MIN_INTENSITY |-> IF e.MIN_INTENSITY = None THEN "3" ELSE e.MIN_INTENSITY[1],
             NODE_ENV |-> IF e.NODE_ENV = None THEN "development" ELSE e.NODE_ENV[1]])
  ELSE None

\* loadConfig: <<>> when it ends in process.exit(1), else the frozen config
loadConfig(e) ==
  LET parsed == envSchemaParse(e) IN
    IF parsed = None THEN None
    ELSE LET minIntensity == parseIntensityString(parsed[1].MIN_INTENSITY) IN
           IF minIntensity.threw THEN None
           ELSE Some([minIntensity |-> minIntensity.value, nodeEnv |-> parsed[1].NODE_ENV])

(***************************************************************************)
(* Frames and the record kept for each dispatched frame                    *)
(***************************************************************************)
Categories == {551, 552, 556}

Hypocenter(magnitude) == [name |-> Some("X"), magnitude |-> magnitude, depth |-> Num(10)]

Quake(earthquake, points) == [code |-> 551, earthquake |-> earthquake, points |-> points]
Earthquake(maxScale, hypocenter) ==
  [maxScale |-> maxScale, hypocenter |-> hypocenter, domesticTsunami |-> Some("None")]

Area(grade, immediate) == [name |-> "A", grade |-> grade, immediate |-> immediate]
Tsunami(cancelled, areas) == [code |-> 552, cancelled |-> cancelled, areas |-> areas]

EEWArea(scaleFrom, scaleTo) == [name |-> "A", scaleFrom |-> scaleFrom, scaleTo |-> scaleTo]
EEW(cancelled, test, issue, areas) ==
  [code |-> 556, cancelled |-> cancelled, test |-> test, issue |-> issue,
   earthquake |-> None, areas |-> areas]

\* the frames the upstream feed delivers in the process model
QuakeFrames ==
  { Quake(None, <<>>) }
  \cup { Quake(Some(Earthquake(m, None)), <<>>) : m \in {-1, 30, 45, 99} }
  \cup { Quake(Some(Earthquake(45, Some(Hypocenter(Null)))), <<[addr |-> "P", scale |-> 45]>>) }

TsunamiFrames ==
  { Tsunami(FALSE, <<>>),
    Tsunami(TRUE, <<Some(Area("Warning", TRUE))>>),
    Tsunami(FALSE, <<None>>) }

EEWFrames ==
  { EEW(FALSE, FALSE, Some([serial |-> 1]), <<EEWArea(45, 50)>>),
    EEW(TRUE, TRUE, Some([serial |-> 2]), <<>>),
    EEW(FALSE, FALSE, None, <<>>) }

Frames(cat) ==
  CASE cat = 551 -> QuakeFrames [] cat = 552 -> TsunamiFrames [] cat = 556 -> EEWFrames

Received(cat, data, handler) ==
  [cat |-> cat, data |-> data, handler |-> handler, st |-> "received",
   sends |-> 0, doc |-> <<>>, logs |-> {}, escaped |-> FALSE]

(***************************************************************************)
(* services/slack.ts                                                       *)
(***************************************************************************)
\* the failure reasons the process model draws from (sendMessage tells five apart)
Reasons == {"rate_limited", "other"}

\* how client.chat.postMessage settles: result.ok, result.ok false, a rejection
\* with an Error, a rejection with another value
SendOutcomes ==
  {[kind |-> "ok", reason |-> ""], [kind |-> "reject-other", reason |-> ""]}
  \cup [kind : {"not-ok", "reject-error"}, reason : Reasons]

\* the type of value sendMessage's try block throws for an outcome
Thrown(outcome) ==
  CASE outcome.kind = "ok" -> "none"
    [] outcome.kind \in {"not-ok", "reject-error"} -> "Error"
    [] outcome.kind = "reject-other" -> "Other"

\* sendMessage up to `await this.client.chat.postMessage(...)`: the send is attempted
sendMessageStart(e, blocks) ==
  [e EXCEPT !.st = "pending", !.sends = @ + 1, !.doc = blocks,
            !.logs = @ \cup (IF config[1].nodeEnv = "development"
                             THEN Emit("DEBUG", "Sending Slack message") ELSE {})]

\* sendMessage after the await: the log entries it adds (it rethrows what it caught)
sendMessageSettle(outcome) ==
  IF Thrown(outcome) = "none" THEN Emit("INFO", "Slack message sent successfully")
  ELSE IF Thrown(outcome) = "Error"
  THEN Emit("ERROR", "Failed to send Slack message")
       \cup (CASE outcome.reason = "not_in_channel" -> Emit("ERROR", "Bot is not in the channel")
               [] outcome.reason = "channel_not_found" -> Emit("ERROR", "Channel not found")
               [] outcome.reason = "invalid_auth" -> Emit("ERROR", "Invalid authentication")
               [] outcome.reason = "rate_limited" -> Emit("WARN", "Rate limited by Slack API")
               [] OTHER -> {})
  ELSE {}

(***************************************************************************)
(* index.ts: the three handlers main() registers                           *)
(***************************************************************************)
FailedToProcess(cat) ==
  CASE cat = 551 -> "Failed to process earthquake information"
    [] cat = 552 -> "Failed to process tsunami information"
    [] cat = 556 -> "Failed to process EEW information"

SentSuccessfully(cat) ==
  CASE cat = 551 -> "Earthquake notification sent successfully"
    [] cat = 552 -> "Tsunami notification sent successfully"
    [] cat = 556 -> "EEW notification sent successfully"

\* the catch clause of a handler: the event is dropped, the error logged if it is an Error
CatchRetry(e, thrown) ==
  [e EXCEPT !.st = IF e.sends = 1 THEN "pending" ELSE "dropped",
            !.sends = IF e.sends = 1 THEN 2 ELSE @,
            !.logs = @ \cup EmitIfError(thrown, FailedToProcess(e.cat))]

Catch(e, thrown) ==
  [e EXCEPT !.st = "dropped",
            !.logs = @ \cup EmitIfError(thrown, FailedToProcess(e.cat))]

\* format, then sendMessage up to its await
FormatAndSendSharedBlocks(e, formatted) ==
  IF formatted.threw THEN Catch(e, "Error")
  ELSE sendMessageStart(e, (IF Len(events) > 0 THEN events[Len(events)].doc ELSE <<>>)
                           \o formatted.blocks)

FormatAndSend(e, formatted) ==
  IF formatted.threw THEN Catch(e, "Error") ELSE sendMessageStart(e, formatted.blocks)

\* the onQuake callback up to its first await
QuakeHandlerUnfiltered(e) ==
  IF e.data.earthquake = None THEN Catch(e, "Error")
  ELSE FormatAndSend([e EXCEPT !.logs = @ \cup Emit("INFO", "Earthquake information received")],
                     formatQuakeMessage(e.data))

QuakeHandlerBody(e) ==
  IF e.data.earthquake = None THEN Catch(e, "Error")   \* quake.earthquake.maxScale
  ELSE LET maxIntensity == e.data.earthquake[1].maxScale
           e1 == [e EXCEPT !.logs = @ \cup Emit("INFO", "Earthquake information received")]
       IN IF ~shouldNotify(maxIntensity, config[1].minIntensity)
          THEN [e1 EXCEPT !.st = "skipped",
                          !.logs = @ \cup Emit("DEBUG", "Earthquake intensity below threshold, skipping notification")]
          ELSE FormatAndSend(e1, formatQuakeMessage(e.data))

\* the onTsunami callback up to its first await
TsunamiHandlerSkipCancelled(e) ==
  IF e.data.cancelled THEN [e EXCEPT !.st = "skipped"]
  ELSE FormatAndSend(e, formatTsunamiMessage(e.data))

TsunamiHandlerBody(e) ==
  FormatAndSend([e EXCEPT !.logs = @ \cup Emit("INFO", "Tsunami information received")],
                formatTsunamiMessage(e.data))

\* the onEEW callback up to its first await
EEWHandlerBody(e) ==
  IF e.data.issue = None THEN Catch(e, "Error")   \* eew.issue.serial
  ELSE FormatAndSend([e EXCEPT !.logs = @ \cup Emit("INFO", "EEW information received")],
                     formatEEWMessage(e.data))

MainHandlerStopsAfterFault(e) ==
  IF \E i \in 1..Len(events) : events[i].st = "dropped"
  THEN [e EXCEPT !.st = "ignored"]
  ELSE CASE e.cat = 551 -> QuakeHandlerBody(e)
         [] e.cat = 552 -> TsunamiHandlerBody(e)
         [] e.cat = 556 -> EEWHandlerBody(e)

MainHandler(e) ==
  CASE e.cat = 551 -> QuakeHandlerBody(e)
    [] e.cat = 552 -> TsunamiHandlerBody(e)
    [] e.cat = 556 -> EEWHandlerBody(e)

\* a handler after `await slackService.sendMessage(blocks)` settles
MainHandlerResume(e, outcome) ==
  LET e1 == [e EXCEPT !.logs = @ \cup sendMessageSettle(outcome)] IN
    IF Thrown(outcome) = "none"
    THEN [e1 EXCEPT !.st = "sent", !.logs = @ \cup Emit("INFO", SentSuccessfully(e.cat))]
    ELSE Catch(e1, Thrown(outcome))

(***************************************************************************)
(* services/p2pquake: P2PQuakeService                                      *)
(***************************************************************************)
NoHandlers == [c \in Categories |-> "none"]

\* handlers a caller of onQuake / onTsunami / onEEW can pass, by behaviour:
\* "main" is the async callback of index.ts; the others return, throw an
\* Error, throw another value, or return a promise that later rejects
HandlerKinds == {"main", "returns", "throws-error", "throws-other", "rejects"}

ErrorInHandler(cat) ==
  CASE cat = 551 -> "Error in quake handler"
    [] cat = 552 -> "Error in tsunami handler"
    [] cat = 556 -> "Error in EEW handler"

ReceivedMessage(cat) ==
  CASE cat = 551 -> "Received JMA earthquake information"
    [] cat = 552 -> "Received JMA tsunami information"
    [] cat = 556 -> "Received EEW detection"

\* constructor: the endpoint is chosen from config.nodeEnv
NewServiceSandboxOnly ==
  Some([url |-> "SANDBOX", conn |-> "Disconnected", connect |-> "none"])

NewService ==
  Some([url |-> IF config[1].nodeEnv = "production" THEN "PRODUCTION" ELSE "SANDBOX",
        conn |-> "Disconnected", connect |-> "none"])

\* the client.on(code, ...) callback: log, then call the registered handler inside try/catch
OnFrame(cat, data) ==
  LET h == handlers[cat]
      e == [Received(cat, data, h) EXCEPT !.logs = Emit("DEBUG", ReceivedMessage(cat))]
  IN CASE h = "none" -> [e EXCEPT !.st = "ignored"]
       [] h = "main" -> MainHandler(e)
       [] h = "returns" -> [e EXCEPT !.st = "returned"]
       [] h = "throws-error" ->
            [e EXCEPT !.st = "caught", !.logs = @ \cup EmitIfError("Error", ErrorInHandler(cat))]
       [] h = "throws-other" ->
            [e EXCEPT !.st = "caught", !.logs = @ \cup EmitIfError("Other", ErrorInHandler(cat))]
       [] h = "rejects" -> [e EXCEPT !.st = "promise"]

\* a category the service does not subscribe to (eventCodes is [551, 552, 556])
\* and a frame of it
UnsubscribedCategory == 555

OtherFrame == [code |-> UnsubscribedCategory]

\* the listeners of setupEventHandlers, one per code and each reading only its
\* own slot; a frame of a code without a listener reaches no callback
EmitFrameSharedSlot(cat, data) ==
  IF cat \in Categories
  THEN [OnFrame(551, data) EXCEPT !.cat = cat]
  ELSE [Received(cat, data, "none") EXCEPT !.st = "ignored"]

EmitFrame(cat, data) ==
  IF cat \in Categories
  THEN OnFrame(cat, data)
  ELSE [Received(cat, data, "none") EXCEPT !.st = "ignored"]

OnName(cat) ==
  CASE cat = 551 -> "onQuake" [] cat = 552 -> "onTsunami" [] cat = 556 -> "onEEW"

\* onQuake / onTsunami / onEEW
On(cat, handler) ==
  /\ handlers' = [handlers EXCEPT ![cat] = handler]
  /\ calls' = Append(calls, OnName(cat))

\* connect() up to `await this.client.connect()`
ServiceConnect ==
  /\ client' = Some([client[1] EXCEPT !.conn = "Connecting", !.connect = "pending"])
  /\ calls' = Append(calls, "connect")
  /\ log' = log \cup Emit("INFO", "Connecting to P2PQuake WebSocket...")

\* disconnect()
ServiceDisconnect ==
  /\ client' = Some([client[1] EXCEPT !.conn = "Disconnected"])
  /\ calls' = Append(calls, "disconnect")
  /\ log' = log \cup Emit("INFO", "Disconnecting from P2PQuake WebSocket...")

(***************************************************************************)
(* The process: module load, main(), signals                               *)
(***************************************************************************)
TerminationSignals == {"SIGINT", "SIGTERM"}

\* exit status of a process killed by a signal it has no listener for
KilledBy(sig) == IF sig = "SIGINT" THEN 130 ELSE 143

Exit(code) ==
  /\ pc' = "exited"
  /\ exitCode' = Some(code)

\* import of config/env.ts: loadConfig() runs before main()
LoadConfig ==
  /\ pc = "load"
  /\ config' = loadConfig(env)
  /\ IF config' = None
     THEN Exit(1) /\ calls' = Append(calls, "process.exit")
     ELSE pc' = "main" /\ UNCHANGED <<exitCode, calls>>
  /\ UNCHANGED <<env, client, handlers, listeners, events, log, call, signal, fault>>

\* main(): log, new SlackService, new P2PQuakeService
MainInit ==
  /\ pc = "main"
  /\ log' = log \cup Emit("INFO", "Starting Slack Quake Alert...")
  /\ client' = NewService
  /\ pc' = "onQuake"
  /\ UNCHANGED <<env, config, exitCode, handlers, listeners, events, calls, call, signal, fault>>

RegisterQuake ==
  /\ pc = "onQuake"
  /\ On(551, "main")
  /\ pc' = "onTsunami"
  /\ UNCHANGED <<env, config, exitCode, client, listeners, events, log, call, signal, fault>>

RegisterTsunami ==
  /\ pc = "onTsunami"
  /\ On(552, "main")
  /\ pc' = "onEEW"
  /\ UNCHANGED <<env, config, exitCode, client, listeners, events, log, call, signal, fault>>

RegisterEEWForgotten ==
  /\ pc = "onEEW"
  /\ pc' = "connect"
  /\ UNCHANGED <<env, config, exitCode, client, handlers, listeners, events, log, calls, call, signal, fault>>

RegisterEEW ==
  /\ pc = "onEEW"
  /\ On(556, "main")
  /\ pc' = "connect"
  /\ UNCHANGED <<env, config, exitCode, client, listeners, events, log, call, signal, fault>>

\* await p2pquakeService.connect(): main() is suspended
Connect ==
  /\ pc = "connect"
  /\ ServiceConnect
  /\ pc' = "connecting"
  /\ UNCHANGED <<env, config, exitCode, handlers, listeners, events, call, signal, fault>>

\* the handshake completes: the client's 'connect' callback logs, connect()
\* resolves and main() runs on: it logs and installs the process listeners
ListenersInstalled == {"SIGINT", "SIGTERM", "uncaughtException", "unhandledRejection"}

ConnectResolved ==
  /\ pc = "connecting"
  /\ client' = Some([client[1] EXCEPT !.conn = "Connected", !.connect = "resolved"])
  /\ log' = log \cup Emit("INFO", "Connected to P2PQuake WebSocket")
                \cup Emit("INFO", "Application started successfully")
  /\ listeners' = ListenersInstalled
  /\ pc' = "running"
  /\ UNCHANGED <<env, config, exitCode, handlers, events, calls, call, signal, fault>>

\* the handshake fails: connect() logs and rethrows, main() logs and exits with 1
RejectionValues == {"Error", "Other"}

ConnectRejected(thrown) ==
  /\ pc = "connecting"
  /\ client' = Some([client[1] EXCEPT !.conn = "Disconnected", !.connect = "rejected"])
  /\ log' = log \cup EmitIfError(thrown, "Failed to connect to P2PQuake WebSocket")
                \cup EmitIfError(thrown, "Failed to start application")
  /\ Exit(1)
  /\ calls' = Append(calls, "process.exit")
  /\ UNCHANGED <<env, config, handlers, listeners, events, call, signal, fault>>

\* a frame of a subscribed category arrives on the open connection
\* a frame arrives on the open connection: the client calls the listener of its
\* code at once, whatever earlier handlers are still awaiting
DispatchAfterPendingSends(cat, data) ==
  /\ pc = "running"
  /\ client[1].conn = "Connected"
  /\ Len(events) < MaxFrames
  /\ \A i \in 1..Len(events) : events[i].st # "pending"
  /\ events' = Append(events, OnFrame(cat, data))
  /\ UNCHANGED <<env, config, pc, exitCode, client, handlers, listeners, log, calls, call, signal, fault>>

Dispatch(cat, data) ==
  /\ pc = "running"
  /\ client[1].conn = "Connected"
  /\ Len(events) < MaxFrames
  /\ events' = Append(events, OnFrame(cat, data))
  /\ UNCHANGED <<env, config, pc, exitCode, client, handlers, listeners, log, calls, call, signal, fault>>

\* the pending postMessage of event i settles and its handler runs to its end
SendSettles(i, outcome) ==
  /\ pc = "running"
  /\ i \in 1..Len(events)
  /\ events[i].st = "pending"
  /\ events' = [events EXCEPT ![i] = MainHandlerResume(events[i], outcome)]
  /\ UNCHANGED <<env, config, pc, exitCode, client, handlers, listeners, log, calls, call, signal, fault>>

\* the promise returned by a handler rejects; nothing in the client awaits it
PromiseRejects(i) ==
  /\ pc \in {"running", "client"}
  /\ i \in 1..Len(events)
  /\ events[i].st = "promise"
  /\ events' = [events EXCEPT ![i].st = "rejected", ![i].escaped = TRUE]
  /\ log' = log \cup (IF "unhandledRejection" \in listeners
                      THEN Emit("ERROR", "Unhandled rejection") ELSE {})
  /\ UNCHANGED <<env, config, pc, exitCode, client, handlers, listeners, calls, call, signal, fault>>

\* the client's 'error' callback: log only
TransportErrorDisconnects ==
  /\ pc \in {"running", "client"}
  /\ client[1].conn = "Connected"
  /\ log' = log \cup Emit("ERROR", "P2PQuake WebSocket error")
  /\ client' = Some([client[1] EXCEPT !.conn = "Disconnected"])
  /\ calls' = Append(calls, "disconnect")
  /\ UNCHANGED <<env, config, pc, exitCode, handlers, listeners, events, call, signal, fault>>

TransportError ==
  /\ pc \in {"running", "client"}
  /\ client[1].conn = "Connected"
  /\ log' = log \cup Emit("ERROR", "P2PQuake WebSocket error")
  /\ UNCHANGED <<env, config, pc, exitCode, client, handlers, listeners, events, calls, call, signal, fault>>

\* the client's 'disconnect' callback: log only; the connection is closed
TransportClosed ==
  /\ pc \in {"running", "client"}
  /\ client[1].conn = "Connected"
  /\ client' = Some([client[1] EXCEPT !.conn = "Disconnected"])
  /\ log' = log \cup Emit("WARN", "Disconnected from P2PQuake WebSocket")
  /\ UNCHANGED <<env, config, pc, exitCode, handlers, listeners, events, calls, call, signal, fault>>

\* shutdown(): log, p2pquakeService.disconnect(), process.exit(0)
ShutdownWithoutDisconnect(before) ==
  /\ log' = log \cup before \cup Emit("INFO", "Shutting down...")
  /\ calls' = Append(calls, "process.exit")
  /\ Exit(0)
  /\ UNCHANGED client

ShutdownExitsOne(before) ==
  /\ log' = log \cup before \cup Emit("INFO", "Shutting down...")
                \cup Emit("INFO", "Disconnecting from P2PQuake WebSocket...")
  /\ client' = Some([client[1] EXCEPT !.conn = "Disconnected"])
  /\ calls' = calls \o <<"disconnect", "process.exit">>
  /\ Exit(1)

Shutdown(before) ==
  /\ log' = log \cup before \cup Emit("INFO", "Shutting down...")
                \cup Emit("INFO", "Disconnecting from P2PQuake WebSocket...")
  /\ client' = Some([client[1] EXCEPT !.conn = "Disconnected"])
  /\ calls' = calls \o <<"disconnect", "process.exit">>
  /\ Exit(0)

\* SIGINT / SIGTERM: shutdown() if main() has installed it, else the default action
Signal(sig) ==
  /\ pc # "exited"
  /\ signal' = Some(sig)
  /\ IF sig \in listeners
     THEN Shutdown({})
     ELSE Exit(KilledBy(sig)) /\ UNCHANGED <<client, log, calls>>
  /\ UNCHANGED <<env, config, handlers, listeners, events, call, fault>>

\* an exception reaches the top of the event loop: the 'uncaughtException'
\* listener logs it and calls shutdown(); without a listener the runtime
\* ends the process with status 1
UncaughtExceptionLogOnly ==
  /\ pc \in {"connecting", "running"}
  /\ fault' = Some("uncaughtException")
  /\ IF "uncaughtException" \in listeners
     THEN /\ log' = log \cup Emit("ERROR", "Uncaught exception")
          /\ UNCHANGED <<pc, exitCode, client, calls>>
     ELSE Exit(1) /\ UNCHANGED <<client, log, calls>>
  /\ UNCHANGED <<env, config, handlers, listeners, events, call, signal>>

UncaughtException ==
  /\ pc \in {"connecting", "running"}
  /\ fault' = Some("uncaughtException")
  /\ IF "uncaughtException" \in listeners
     THEN Shutdown(Emit("ERROR", "Uncaught exception"))
     ELSE Exit(1) /\ UNCHANGED <<client, log, calls>>
  /\ UNCHANGED <<env, config, handlers, listeners, events, call, signal>>

\* a promise rejects with no handler attached: the 'unhandledRejection'
\* listener logs the reason (wrapped in an Error if it is not one) and
\* returns; without a listener the runtime ends the process with status 1
UnhandledRejection ==
  /\ pc \in {"connecting", "running"}
  /\ fault' = Some("unhandledRejection")
  /\ IF "unhandledRejection" \in listeners
     THEN /\ log' = log \cup Emit("ERROR", "Unhandled rejection")
          /\ UNCHANGED <<pc, exitCode>>
     ELSE Exit(1) /\ UNCHANGED log
  /\ UNCHANGED <<env, config, client, handlers, listeners, events, calls, call, signal>>

(***************************************************************************)
(* Specification of the process                                            *)
(***************************************************************************)
BaseEnv ==
  [SLACK_BOT_TOKEN |-> Some("xoxb-1"), SLACK_CHANNEL_ID |-> Some("C0123456789"),
   MIN_INTENSITY |-> None, NODE_ENV |-> None, GITHUB_IMAGE_BASE_URL |-> None]

Envs ==
  { BaseEnv,
    [BaseEnv EXCEPT !.MIN_INTENSITY = Some("5jaku"), !.NODE_ENV = Some("production")],
    [BaseEnv EXCEPT !.MIN_INTENSITY = Some("constructor")],
    [BaseEnv EXCEPT !.MIN_INTENSITY = Some("8")],
    [BaseEnv EXCEPT !.MIN_INTENSITY = Some("")],
    [BaseEnv EXCEPT !.SLACK_BOT_TOKEN = Some("xoxp-1")],
    [BaseEnv EXCEPT !.SLACK_CHANNEL_ID = None],
    [BaseEnv EXCEPT !.NODE_ENV = Some("staging")],
    [BaseEnv EXCEPT !.GITHUB_IMAGE_BASE_URL = Some("img")] }

NoCall == [op |-> "none", intensity |-> 0, threshold |-> 0, str |-> "", ret |-> FALSE,
           parsed |-> [threw |-> FALSE, value |-> Undefined, message |-> ""]]

Init ==
  /\ env \in Envs
  /\ config = None
  /\ pc = "load"
  /\ exitCode = None
  /\ client = None
  /\ handlers = NoHandlers
  /\ listeners = {}
  /\ events = <<>>
  /\ log = {}
  /\ calls = <<>>
  /\ call = NoCall
  /\ signal = None
  /\ fault = None

Next ==
  \/ LoadConfig
  \/ MainInit
  \/ RegisterQuake
  \/ RegisterTsunami
  \/ RegisterEEW
  \/ Connect
  \/ ConnectResolved
  \/ \E thrown \in RejectionValues : ConnectRejected(thrown)
  \/ \E cat \in Categories : \E data \in Frames(cat) : Dispatch(cat, data)
  \/ \E i \in 1..MaxFrames : \E outcome \in SendOutcomes : SendSettles(i, outcome)
  \/ TransportError
  \/ TransportClosed
  \/ \E sig \in TerminationSignals : Signal(sig)

Spec == Init /\ [][Next]_vars

(***************************************************************************)
(* The process with uncaught faults raised anywhere in it                  *)
(***************************************************************************)
MaxFaultFrames == 1

DispatchWithFaults(cat, data) ==
  /\ Len(events) < MaxFaultFrames
  /\ Dispatch(cat, data)

NextFaults ==
  \/ LoadConfig \/ MainInit \/ RegisterQuake \/ RegisterTsunami \/ RegisterEEW
  \/ Connect \/ ConnectResolved
  \/ \E thrown \in RejectionValues : ConnectRejected(thrown)
  \/ \E cat \in Categories : \E data \in Frames(cat) : DispatchWithFaults(cat, data)
  \/ \E i \in 1..MaxFaultFrames : \E outcome \in SendOutcomes : SendSettles(i, outcome)
  \/ TransportError \/ TransportClosed
  \/ \E sig \in TerminationSignals : Signal(sig)
  \/ UncaughtException
  \/ UnhandledRejection

SpecFaults == Init /\ [][NextFaults]_vars

(***************************************************************************)
(* Specification of the stream client used on its own: any caller, any     *)
(* handler                                                                 *)
(***************************************************************************)
InitClient ==
  /\ env = BaseEnv
  /\ config = loadConfig(BaseEnv)
  /\ pc = "client"
  /\ exitCode = None
  /\ client = NewService
  /\ handlers = NoHandlers
  /\ listeners = {}
  /\ events = <<>>
  /\ log = {}
  /\ calls = <<>>
  /\ call = NoCall
  /\ signal = None
  /\ fault = None

ClientOn(cat, handler) ==
  /\ pc = "client"
  /\ Len(calls) < MaxCalls
  /\ On(cat, handler)
  /\ UNCHANGED <<env, config, pc, exitCode, client, listeners, events, log, call, signal, fault>>

ClientConnect ==
  /\ pc = "client"
  /\ Len(calls) < MaxCalls
  /\ client[1].conn = "Disconnected"
  /\ ServiceConnect
  /\ UNCHANGED <<env, config, pc, exitCode, handlers, listeners, events, call, signal, fault>>

ClientConnected ==
  /\ pc = "client"
  /\ client[1].conn = "Connecting"
  /\ client' = Some([client[1] EXCEPT !.conn = "Connected", !.connect = "resolved"])
  /\ log' = log \cup Emit("INFO", "Connected to P2PQuake WebSocket")
  /\ UNCHANGED <<env, config, pc, exitCode, handlers, listeners, events, calls, call, signal, fault>>

ClientConnectFailed(thrown) ==
  /\ pc = "client"
  /\ client[1].conn = "Connecting"
  /\ client' = Some([client[1] EXCEPT !.conn = "Disconnected", !.connect = "rejected"])
  /\ log' = log \cup EmitIfError(thrown, "Failed to connect to P2PQuake WebSocket")
  /\ UNCHANGED <<env, config, pc, exitCode, handlers, listeners, events, calls, call, signal, fault>>

ClientDisconnect ==
  /\ pc = "client"
  /\ Len(calls) < MaxCalls
  /\ ServiceDisconnect
  /\ UNCHANGED <<env, config, pc, exitCode, handlers, listeners, events, call, signal, fault>>

\* a frame arrives on the open connection of the stream client
ClientDispatch(cat) ==
  /\ pc = "client"
  /\ client[1].conn = "Connected"
  /\ Len(events) < MaxClientFrames
  /\ \E data \in (IF cat \in Categories THEN {CHOOSE d \in Frames(cat) : TRUE} ELSE {OtherFrame}) :
       events' = Append(events, EmitFrame(cat, data))
  /\ UNCHANGED <<env, config, pc, exitCode, client, handlers, listeners, log, calls, call, signal, fault>>

NextClient ==
  \/ \E cat \in Categories : \E handler \in HandlerKinds \ {"main"} : ClientOn(cat, handler)
  \/ ClientConnect
  \/ ClientConnected
  \/ \E thrown \in RejectionValues : ClientConnectFailed(thrown)
  \/ ClientDisconnect
  \/ \E cat \in Categories \cup {UnsubscribedCategory} : ClientDispatch(cat)
  \/ \E i \in 1..MaxClientFrames : PromiseRejects(i)
  \/ TransportError
  \/ TransportClosed

SpecClient == InitClient /\ [][NextClient]_vars

(***************************************************************************)
(* Specification of the classifier's functions over their inputs           *)
(***************************************************************************)
Tokens ==
  DOMAIN STRING_TO_INTENSITY \cup ObjectPrototypeFunctions \cup ObjectPrototypeObjects
  \cup {"", "0", "5", "6", "8", "10", "30", "3 ", " 3", "03", "5 -", "-5", "abc", "5JAKU", "weak"}

InitClassifier ==
  /\ env = BaseEnv
  /\ config = None
  /\ pc = "load"
  /\ exitCode = None
  /\ client = None
  /\ handlers = NoHandlers
  /\ listeners = {}
  /\ events = <<>>
  /\ log = {}
  /\ calls = <<>>
  /\ call = NoCall
  /\ signal = None
  /\ fault = None

CallShouldNotify(intensity, threshold) ==
  /\ call' = [NoCall EXCEPT !.op = "shouldNotify", !.intensity = intensity,
                            !.threshold = threshold,
                            !.ret = shouldNotify(intensity, Num(threshold))]
  /\ UNCHANGED <<env, config, pc, exitCode, client, handlers, listeners, events, log, calls, signal, fault>>

CallParseIntensityString(str) ==
  /\ call' = [NoCall EXCEPT !.op = "parseIntensityString", !.str = str,
                            !.parsed = parseIntensityString(str)]
  /\ UNCHANGED <<env, config, pc, exitCode, client, handlers, listeners, events, log, calls, signal, fault>>

NextClassifier ==
  \/ \E intensity \in SeismicIntensity : \E threshold \in SeismicIntensity :
       CallShouldNotify(intensity, threshold)
  \/ \E str \in Tokens : CallParseIntensityString(str)

SpecClassifier == InitClassifier /\ [][NextClassifier]_vars

(***************************************************************************)
(* The formatters alone, applied to bounded sets of event records          *)
(***************************************************************************)
MaxPoints == 3
ExtraPoints == 2
MaxShortAreas == 2
ExtraAreas == 2

\* all sequences over S of length at most n
RECURSIVE SeqsUpTo(_, _)
SeqsUpTo(S, n) ==
  IF n = 0 THEN {<<>>}
  ELSE LET shorter == SeqsUpTo(S, n - 1)
       IN shorter \cup {Append(q, x) : q \in {r \in shorter : Len(r) = n - 1}, x \in S}

\* observation points with the given scales, each address naming its position
PointsOf(scales) == [i \in 1..Len(scales) |-> [addr |-> ToString(i), scale |-> scales[i]]]

\* a run of n scales 30 with another scale put at position k (none if k = 0)
RunWith(n, k, other) == [i \in 1..n |-> IF i = k THEN other ELSE 30]

\* -1 and 46 are both displayed as "fumei"
PointInputs ==
  { PointsOf(scales) : scales \in SeqsUpTo({-1, 30, 46}, MaxPoints) }
  \cup { PointsOf(RunWith(n, 0, 30)) : n \in (MaxDisplay - 1)..(MaxDisplay + ExtraPoints) }
  \cup UNION { { PointsOf(RunWith(n, k, other)) : k \in 1..n, other \in {20, 45} } :
               n \in (MaxDisplay - 1)..(MaxDisplay + ExtraPoints) }

Hypocenters ==
  {None} \cup
  { Some([name |-> name, magnitude |-> magnitude, depth |-> depth]) :
      name \in {None, Some("X")},
      magnitude \in {Undefined, Num(-1), Num(5)},
      depth \in {Undefined, Num(-1), Num(10)} }

QuakeInputs ==
  { Quake(Some([Earthquake(maxScale, hypocenter) EXCEPT !.domesticTsunami = tsunami]),
          PointsOf(scales)) :
      maxScale \in {-1, 45}, hypocenter \in Hypocenters,
      tsunami \in {None, Some("Warning")},
      scales \in {<<>>, <<45>>, <<30, 45, 30>>} }

\* tsunami areas, each name naming its position
NamedAreas(areas) ==
  [i \in 1..Len(areas) |-> Some([areas[i][1] EXCEPT !.name = ToString(i)])]

TsunamiInputs ==
  { Tsunami(cancelled, NamedAreas(areas)) :
      cancelled \in BOOLEAN,
      areas \in SeqsUpTo({ Some(Area(grade, immediate)) :
                             grade \in {"MajorWarning", "Watch", "Unknown"},
                             immediate \in BOOLEAN }, 2)
                \cup { [i \in 1..n |-> Some(Area("Warning", FALSE))] :
                         n \in MaxAreas..(MaxAreas + ExtraAreas) } }

\* areas with the given bounds, each name naming its position
AreasOf(bounds) ==
  [i \in 1..Len(bounds) |-> [EEWArea(bounds[i][1], bounds[i][2]) EXCEPT !.name = ToString(i)]]

AreaInputs ==
  { AreasOf(bounds) : bounds \in SeqsUpTo({0, 30, 50} \X {0, 30, 50}, MaxShortAreas) }
  \cup { AreasOf([i \in 1..n |-> <<30, 45>>]) : n \in (MaxAreas - 1)..(MaxAreas + ExtraAreas) }

EEWInputs ==
  { [EEW(cancelled, test, issue, areas) EXCEPT !.earthquake = earthquake] :
      cancelled \in BOOLEAN, test \in BOOLEAN,
      issue \in {None, Some([serial |-> 1])},
      earthquake \in { None,
                       Some([originTime |-> None, hypocenter |-> None]),
                       Some([originTime |-> Some("t"), hypocenter |-> Some(Hypocenter(Num(5)))]),
                       Some([originTime |-> None,
                             hypocenter |-> Some([name |-> None, magnitude |-> Num(-1),
                                                  depth |-> Num(-1)])]) },
      areas \in AreaInputs }

\* the formatters keep no state between calls: each call is made from the
\* initial state
NoFormatterCall == [op |-> "none", data |-> <<>>, out |-> <<>>]

InitFormatter ==
  /\ env = BaseEnv
  /\ config = loadConfig(BaseEnv)
  /\ pc = "formatter"
  /\ exitCode = None
  /\ client = None
  /\ handlers = NoHandlers
  /\ listeners = {}
  /\ events = <<>>
  /\ log = {}
  /\ calls = <<>>
  /\ call = NoFormatterCall
  /\ signal = None
  /\ fault = None

CallFormatObservationPoints(points) ==
  /\ call = NoFormatterCall
  /\ call' = [op |-> "formatObservationPoints", data |-> points,
              out |-> formatObservationPoints(points)]
  /\ UNCHANGED <<env, config, pc, exitCode, client, handlers, listeners, events, log, calls, signal, fault>>

CallFormatQuakeMessage(quake) ==
  /\ call = NoFormatterCall
  /\ call' = [op |-> "formatQuakeMessage", data |-> quake, out |-> formatQuakeMessage(quake)]
  /\ UNCHANGED <<env, config, pc, exitCode, client, handlers, listeners, events, log, calls, signal, fault>>

CallFormatTsunamiMessage(tsunami) ==
  /\ call = NoFormatterCall
  /\ call' = [op |-> "formatTsunamiMessage", data |-> tsunami,
              out |-> formatTsunamiMessage(tsunami)]
  /\ UNCHANGED <<env, config, pc, exitCode, client, handlers, listeners, events, log, calls, signal, fault>>

CallFormatEEWMessage(eew) ==
  /\ call = NoFormatterCall
  /\ call' = [op |-> "formatEEWMessage", data |-> eew, out |-> formatEEWMessage(eew)]
  /\ UNCHANGED <<env, config, pc, exitCode, client, handlers, listeners, events, log, calls, signal, fault>>

NextFormatter ==
  \/ \E points \in PointInputs : CallFormatObservationPoints(points)
  \/ \E quake \in QuakeInputs : CallFormatQuakeMessage(quake)
  \/ \E tsunami \in TsunamiInputs : CallFormatTsunamiMessage(tsunami)
  \/ \E eew \in EEWInputs : CallFormatEEWMessage(eew)

SpecFormatter == InitFormatter /\ [][NextFormatter]_vars

(***************************************************************************)
(* Properties                                                              *)
(***************************************************************************)
ErrorEntry(msg) == [level |-> "ERROR", msg |-> msg]

\* a frame none of whose reads in the handler or the formatter throws
WellFormed(data) ==
  CASE data.code = 551 ->
         /\ data.earthquake # None
         /\ HypoMagnitude(data.earthquake[1]) # Null
    [] data.code = 552 -> \A i \in 1..Len(data.areas) : data.areas[i] # None
    [] data.code = 556 -> data.issue # None

Count(seq, x) == Cardinality({i \in 1..Len(seq) : seq[i] = x})

EndsWith(seq, tail) ==
  /\ Len(seq) >= Len(tail)
  /\ SubSeq(seq, Len(seq) - Len(tail) + 1, Len(seq)) = tail

\* C1: a quake frame is formatted and sent (at most once) only if its maximum
\* intensity is a non-sentinel ordinal at or above the configured threshold; a
\* quake below the threshold or with maxScale -1 or 99 gets no document and no send.
C1_QuakeSentOnlyAtOrAboveThreshold ==
  \A i \in 1..Len(events) :
    (events[i].cat = 551 /\ events[i].handler = "main") =>
      LET e == events[i]
          threshold == config[1].minIntensity
          present == e.data.earthquake # None
          maxScale == e.data.earthquake[1].maxScale
      IN /\ e.sends <= 1
         /\ (e.sends > 0 \/ e.doc # <<>>) =>
              /\ present
              /\ maxScale \notin {-1, 99}
              /\ threshold.type = "number"
              /\ maxScale >= threshold.num
         /\ (present /\ (maxScale \in {-1, 99}
                          \/ (threshold.type = "number" /\ maxScale < threshold.num))) =>
              (e.sends = 0 /\ e.doc = <<>> /\ e.st = "skipped")

C1_Witness ==
  /\ \E i \in 1..Len(events) :
       /\ events[i].cat = 551 /\ events[i].data.earthquake # None
       /\ events[i].data.earthquake[1].maxScale = -1
       /\ events[i].st = "skipped"
  /\ \E i \in 1..Len(events) :
       /\ events[i].cat = 551 /\ events[i].sends = 1 /\ events[i].st = "sent"

\* C2: every well-formed tsunami or early-warning frame handled by main()'s
\* handler has had exactly one send of its document attempted, whatever its
\* flags, its intensities and the threshold; no such frame is ever sent twice.
C2_TsunamiAndEEWSentExactlyOnce ==
  \A i \in 1..Len(events) :
    (events[i].cat \in {552, 556} /\ events[i].handler = "main") =>
      /\ events[i].sends <= 1
      /\ events[i].st # "skipped"
      /\ WellFormed(events[i].data) =>
           /\ events[i].sends = 1
           /\ Len(events[i].doc) >= 5
           /\ events[i].doc[1].role = "header"

C2_Witness ==
  /\ config # None /\ config[1].minIntensity = Num(45)
  /\ \E i \in 1..Len(events) :
       /\ events[i].cat = 552 /\ events[i].data.cancelled
       /\ events[i].sends = 1 /\ events[i].st = "dropped"
  /\ \E i \in 1..Len(events) :
       /\ events[i].cat = 556 /\ events[i].data.cancelled /\ events[i].data.test
       /\ events[i].sends = 1 /\ events[i].st = "sent"

\* C3: after an event whose processing faulted, a later frame that is well formed
\* (and, for a quake, passes the filter) is still formatted and sent; a dropped
\* event is never touched again, no event is sent twice, and processing an
\* event never changes the connection, the handlers or the process position.
C3_FaultDoesNotStopLaterEvents ==
  /\ [](\A i \in 1..Len(events) : \A j \in 1..Len(events) :
          (/\ i < j
           /\ events[i].st = "dropped"
           /\ WellFormed(events[j].data)
           /\ events[j].cat = 551 =>
                shouldNotify(events[j].data.earthquake[1].maxScale, config[1].minIntensity))
          => (events[j].sends = 1 /\ events[j].doc # <<>>))
  /\ [](\A i \in 1..Len(events) : events[i].sends <= 1)
  /\ [][\A i \in 1..Len(events) : events[i].st = "dropped" => events'[i] = events[i]]_vars
  /\ [][events' # events => (client' = client /\ handlers' = handlers /\ pc' = pc)]_vars

C3_Witness ==
  /\ Len(events) = 2
  /\ events[1].cat = 551 /\ events[1].st = "dropped" /\ events[1].sends = 0
  /\ events[1].data.earthquake # None
  /\ events[2].cat = 552 /\ events[2].st = "sent"
  /\ client[1].conn = "Connected" /\ pc = "running"

\* C4: every fault raised inside a registered handler, thrown synchronously or
\* as a rejection of the promise the handler returned, is caught and logged by
\* the client's wrapper and does not leave the dispatch callback.
C4_WrapperCatchesAndLogsEveryFault ==
  \A i \in 1..Len(events) :
    (events[i].handler \in {"throws-error", "throws-other", "rejects"}
       /\ events[i].st \in {"caught", "rejected"}) =>
      /\ ~events[i].escaped
      /\ ErrorEntry(ErrorInHandler(events[i].cat)) \in events[i].logs

\* C5: every error raised while an event is classified, formatted or sent,
\* whatever the thrown value, leaves an error entry for that event and does
\* not leave the handler.
C5_EveryEventErrorIsLogged ==
  \A i \in 1..Len(events) :
    (events[i].handler = "main" /\ events[i].st = "dropped") =>
      /\ ~events[i].escaped
      /\ ErrorEntry(FailedToProcess(events[i].cat)) \in events[i].logs

\* C6: shouldNotify(i, t) is false for the sentinels -1 and 99 whatever t is,
\* and otherwise true exactly when i >= t.
C6_ShouldNotifyContract ==
  call.op = "shouldNotify" =>
    call.ret = (IF call.intensity \in {-1, 99} THEN FALSE
                ELSE call.intensity >= call.threshold)

C6_Witness ==
  /\ call.op = "shouldNotify"
  /\ call.intensity = 99 /\ call.threshold = 10
  /\ ~call.ret

\* C7: parseIntensityString maps the nine canonical tokens to distinct ordinals,
\* each localized token to the ordinal of its canonical token, and fails for
\* every other string with an error naming the allowed values.
CanonicalTokens == {"1", "2", "3", "4", "5-", "5+", "6-", "6+", "7"}
LocalizedOf(str) ==
  CASE str = "5jaku" -> "5-" [] str = "5kyou" -> "5+"
    [] str = "6jaku" -> "6-" [] str = "6kyou" -> "6+"

C7_ParseIntensityStringContract ==
  call.op = "parseIntensityString" =>
    IF call.str \in CanonicalTokens
    THEN /\ ~call.parsed.threw
         /\ call.parsed.value.type = "number"
         /\ \A other \in CanonicalTokens \ {call.str} :
              parseIntensityString(other).value # call.parsed.value
    ELSE IF call.str \in {"5jaku", "5kyou", "6jaku", "6kyou"}
    THEN /\ ~call.parsed.threw
         /\ call.parsed.value = parseIntensityString(LocalizedOf(call.str)).value
    ELSE /\ call.parsed.threw
         /\ call.parsed.message = ValidValuesMessage

\* C8: with a MIN_INTENSITY that is not a recognized token the process ends with
\* a non-zero status in loadConfig, before a client exists, a handler is
\* registered or connect is called; a loaded threshold is always an ordinal of
\* the scale, and it is 30 when MIN_INTENSITY is not set.
C8_MalformedThresholdIsFatal ==
  /\ (/\ env.MIN_INTENSITY # None
      /\ env.MIN_INTENSITY[1] \notin DOMAIN STRING_TO_INTENSITY
      /\ pc # "load")
     => /\ pc = "exited" /\ exitCode # None /\ exitCode[1] # 0
        /\ config = None /\ client = None /\ handlers = NoHandlers
        /\ Count(calls, "connect") = 0 /\ events = <<>>
  /\ config # None =>
       /\ config[1].minIntensity.type = "number"
       /\ config[1].minIntensity.num \in SeismicIntensity
  /\ (env.MIN_INTENSITY = None /\ config # None) => config[1].minIntensity = Num(30)

\* C9: when the initial connect fails the failure is logged, connect is not
\* called again, no process listener is installed and the process exits with 1.
C9_FailedConnectIsLoggedAndFatal ==
  (client # None /\ client[1].connect = "rejected") =>
    /\ ErrorEntry("Failed to connect to P2PQuake WebSocket") \in log
    /\ Count(calls, "connect") = 1
    /\ listeners = {}
    /\ pc = "exited" /\ exitCode = Some(1)

\* C10 as stated: a termination signal that arrives while connecting or once
\* connected makes the process call disconnect exactly once and then exit.
C10_SignalAlwaysDisconnects ==
  (signal # None /\ client # None /\ client[1].connect \in {"pending", "resolved"}) =>
    /\ pc = "exited"
    /\ Count(calls, "disconnect") = 1
    /\ EndsWith(calls, <<"disconnect", "process.exit">>)

\* C10 as amended: a termination signal that arrives after the initial connect
\* has succeeded makes the process call disconnect exactly once and then exit
\* with status 0, leaving the pending sends as they are; a signal that arrives
\* while connecting ends the process without any disconnect call.
C10_SignalAfterStartupDisconnectsOnce ==
  /\ []((signal # None /\ client # None /\ client[1].connect = "resolved") =>
          /\ pc = "exited" /\ exitCode = Some(0)
          /\ Count(calls, "disconnect") = 1
          /\ EndsWith(calls, <<"disconnect", "process.exit">>)
          /\ client[1].conn = "Disconnected")
  /\ []((signal # None /\ client # None /\ client[1].connect = "pending") =>
          /\ pc = "exited" /\ exitCode = Some(KilledBy(signal[1]))
          /\ Count(calls, "disconnect") = 0)
  /\ [][(signal = None /\ signal' # None) => events' = events]_vars

C10_Witness ==
  /\ signal = Some("SIGTERM")
  /\ client # None /\ client[1].connect = "resolved"
  /\ pc = "exited"
  /\ \E i \in 1..Len(events) : events[i].st = "pending"

\* C11 as stated: after any uncaught fault, an uncaught exception or an
\* unhandled rejection, the fault is logged and the process has called
\* disconnect and then exited.
C11_EveryUncaughtFaultShutsDown ==
  fault # None =>
    /\ \/ ErrorEntry("Uncaught exception") \in log
       \/ ErrorEntry("Unhandled rejection") \in log
    /\ pc = "exited"
    /\ EndsWith(calls, <<"disconnect", "process.exit">>)

\* C11 as amended: once main() has installed its listeners, an uncaught
\* exception is logged and followed by disconnect and exit with status 0; an
\* unhandled rejection is logged and nothing else happens.
C11_UncaughtExceptionShutsDown ==
  /\ [][(fault' = Some("uncaughtException") /\ pc # "exited" /\ pc' = "exited"
          /\ "uncaughtException" \in listeners) =>
          /\ ErrorEntry("Uncaught exception") \in log'
          /\ calls' = calls \o <<"disconnect", "process.exit">>
          /\ exitCode' = Some(0)
          /\ client'[1].conn = "Disconnected"]_vars
  /\ []((fault = Some("uncaughtException") /\ client[1].connect = "resolved") =>
          (pc = "exited" /\ Count(calls, "disconnect") = 1))
  /\ [][(fault # Some("unhandledRejection") /\ fault' = Some("unhandledRejection")
          /\ "unhandledRejection" \in listeners) =>
          /\ ErrorEntry("Unhandled rejection") \in log'
          /\ pc' = pc /\ exitCode' = exitCode
          /\ calls' = calls /\ client' = client]_vars

C11_Witness ==
  /\ fault = Some("uncaughtException")
  /\ ErrorEntry("Unhandled rejection") \in log
  /\ pc = "exited" /\ exitCode = Some(0)
  /\ EndsWith(calls, <<"disconnect", "process.exit">>)

\* C12: a frame invokes exactly the handler currently registered for its own
\* category, once; a registration replaces the handler of its category only;
\* a frame of an unsubscribed category, or of a category with no handler, is
\* ignored: no handler runs, no error is logged, the connection is untouched.
C12_DispatchByCategory ==
  /\ [][Len(events') > Len(events) =>
          LET e == events'[Len(events')] IN
          /\ events' = Append(events, e)
          /\ client' = client /\ handlers' = handlers /\ log' = log
          /\ e.cat \in Categories => e.handler = handlers[e.cat]
          /\ (e.cat \notin Categories \/ handlers[e.cat] = "none") =>
                /\ e.handler = "none" /\ e.st = "ignored" /\ e.sends = 0
                /\ \A entry \in e.logs : entry.level # "ERROR"]_vars
  /\ [][handlers' # handlers =>
          \E cat \in Categories :
            /\ calls' = Append(calls, OnName(cat))
            /\ \A other \in Categories \ {cat} : handlers'[other] = handlers[other]]_vars

C12_Witness ==
  /\ Count(calls, "onQuake") = 2
  /\ handlers[552] = "none" /\ handlers[556] = "none"
  /\ Len(events) = 1
  /\ events[1].cat = 551 /\ events[1].handler = handlers[551] /\ events[1].st = "caught"
  /\ client[1].conn = "Connected"

\* C13: while the process runs on an open connection, a frame of any category
\* can be dispatched whatever sends are still pending; a frame dispatched
\* while an earlier send is pending is handled at once, a well-formed tsunami
\* or early-warning frame is formatted and handed to the channel, and the
\* pending events are left as they were.
C13_StalledSendDoesNotBlockIngestion ==
  /\ []((pc = "running" /\ client[1].conn = "Connected" /\ Len(events) < MaxFrames) =>
          \A cat \in Categories : ENABLED (\E data \in Frames(cat) : Dispatch(cat, data)))
  /\ [][(Len(events') > Len(events)
          /\ \E j \in 1..Len(events) : events[j].st = "pending") =>
          LET e == events'[Len(events')] IN
          /\ events' = Append(events, e)
          /\ e.st \in {"pending", "skipped", "dropped"}
          /\ (e.cat \in {552, 556} /\ WellFormed(e.data)) =>
                (e.st = "pending" /\ e.sends = 1 /\ e.doc # <<>>)]_vars

C13_Witness ==
  /\ Len(events) >= 2
  /\ events[1].st = "pending"
  /\ events[2].cat # events[1].cat
  /\ events[2].sends = 1 /\ events[2].st = "sent"

C15_EndpointSelectedOnce ==
  /\ [](client # None =>
          client[1].url = (IF env.NODE_ENV = Some("production")
                           THEN "PRODUCTION" ELSE "SANDBOX"))
  /\ [][client # None => (client' # None /\ client'[1].url = client[1].url)]_vars

C15_Witness ==
  /\ client # None /\ client[1].url = "PRODUCTION"
  /\ client[1].connect = "resolved" /\ client[1].conn = "Disconnected"
  /\ ErrorEntry("P2PQuake WebSocket error") \in log
  /\ Count(calls, "disconnect") = 1

Builders == {"formatQuakeMessage", "formatTsunamiMessage", "formatEEWMessage"}

KeyFacts == {"max-intensity", "cancelled", "fields"}
Detail == {"points", "area", "areas"}

\* the place of a fragment between the first divider and the footer's divider
MiddleRank(role) ==
  IF role \in KeyFacts THEN 4 ELSE IF role = "divider" THEN 5 ELSE IF role \in Detail THEN 6 ELSE 0

\* C16: the document of each builder, whatever optional fields the event has,
\* is header, summary, divider, then key facts (maximum intensity before the
\* field list), then at most one divider that is directly followed by the
\* detail fragments, then a divider and the footer; header first, footer last.
C16_FragmentOrderIsFixed ==
  (call.op \in Builders /\ ~call.out.threw) =>
    LET b == call.out.blocks
        n == Len(b)
        middle == 4..(n - 2)
    IN /\ n >= 5
       /\ b[1].role = "header" /\ b[2].role = "summary" /\ b[3].role = "divider"
       /\ b[n - 1].role = "divider" /\ b[n].role = "footer"
       /\ \A i \in middle : MiddleRank(b[i].role) # 0
       /\ \A i, j \in middle :
            i < j => /\ MiddleRank(b[i].role) <= MiddleRank(b[j].role)
                     /\ ~(b[i].role = "divider" /\ b[j].role = "divider")
                     /\ ~(b[i].role = "fields" /\ b[j].role = "max-intensity")
       /\ \A i \in middle :
            b[i].role = "divider" => (i + 1 \in middle /\ b[i + 1].role \in Detail)

C16_Witness ==
  /\ call.op = "formatQuakeMessage" /\ ~call.out.threw
  /\ call.data.earthquake[1].hypocenter = None
  /\ call.data.earthquake[1].domesticTsunami = None
  /\ Len(call.data.points) > 0
  /\ [i \in 1..Len(call.out.blocks) |-> call.out.blocks[i].role] =
       <<"header", "summary", "divider", "max-intensity", "fields", "divider", "points",
         "divider", "footer">>

\* the state of an early-warning event, by priority
EEWState(eew) ==
  IF eew.cancelled THEN "cancelled"
  ELSE IF eew.test THEN "test"
  ELSE IF \E i \in 1..Len(eew.areas) : eew.areas[i].scaleTo >= 50 THEN "warning"
  ELSE "detection"

\* one event of each state
EEWStateExamples ==
  { EEW(TRUE, FALSE, Some([serial |-> 1]), <<>>),
    EEW(FALSE, TRUE, Some([serial |-> 1]), <<>>),
    EEW(FALSE, FALSE, Some([serial |-> 1]), <<EEWArea(45, 50)>>),
    EEW(FALSE, FALSE, Some([serial |-> 1]), <<EEWArea(30, 30)>>) }

\* C17 as stated: the document of an early-warning event differs from the
\* document of an event of any other state in its title, in its header image
\* and in its alert sentence, and the document of a cancelled or test event
\* carries no warning image.
C17_FourDistinctVariants ==
  (call.op = "formatEEWMessage" /\ ~call.out.threw) =>
    LET doc == call.out.blocks IN
    /\ \A other \in EEWStateExamples :
         EEWState(other) # EEWState(call.data) =>
           LET otherDoc == formatEEWMessage(other).blocks IN
           /\ doc[1].fields # otherDoc[1].fields
           /\ doc[1].image # otherDoc[1].image
           /\ doc[2].fields # otherDoc[2].fields
    /\ EEWState(call.data) \in {"cancelled", "test"} =>
         \A i \in 1..Len(doc) : doc[i].image # "warning.png"

\* C18: formatObservationPoints returns one line per distinct scale of its
\* points, in strictly descending scale; a line lists the addresses of the
\* points of exactly its scale in their original order, all of them if they
\* are at most 10, else the first 10 with the number of the others.
C18_PointsGroupedSortedAndCapped ==
  call.op = "formatObservationPoints" =>
    LET points == call.data
        lines == call.out
        scales == {points[i].scale : i \in 1..Len(points)}
        Members(scale) == {i \in 1..Len(points) : points[i].scale = scale}
    IN /\ Len(lines) = Cardinality(scales)
       /\ \A g \in 1..Len(lines) :
            /\ lines[g].intensity \in scales
            /\ lines[g].label = intensityToString(lines[g].intensity)
            /\ g < Len(lines) => lines[g].intensity > lines[g + 1].intensity
            /\ LET m == Members(lines[g].intensity)
                   n == Cardinality(m)
                   shown == IF n > 10 THEN 10 ELSE n
               IN /\ Len(lines[g].locations) = shown
                  /\ \A k \in 1..shown :
                       \E i \in m : /\ Cardinality({j \in m : j < i}) = k - 1
                                    /\ lines[g].locations[k] = points[i].addr
                  /\ lines[g].remaining = IF n > 10 THEN n - 10 ELSE 0

C18_Witness ==
  /\ call.op = "formatObservationPoints"
  /\ Len(call.data) = 12
  /\ Len(call.out) = 2
  /\ call.out[1].intensity = 45 /\ call.out[1].remaining = 0
  /\ call.out[2].intensity = 30 /\ call.out[2].remaining = 1
  /\ call.out[2].locations[3] = "4"

\* C19: the document of an early-warning event that is not cancelled and has
\* n > 0 areas has one area block, directly after a divider, listing the first
\* min(n, 15) areas in their order, with a remainder of n - 15 if n > 15 and
\* none otherwise; a cancelled event, like one without areas, has no area
\* block and no divider but the two every document has.
C19_AreasCappedAndOmittedWhenCancelled ==
  (call.op = "formatEEWMessage" /\ ~call.out.threw) =>
    LET eew == call.data
        doc == call.out.blocks
        n == Len(eew.areas)
        at == {i \in 1..Len(doc) : doc[i].role = "areas"}
        dividers == {i \in 1..Len(doc) : doc[i].role = "divider"}
    IN IF eew.cancelled \/ n = 0
       THEN at = {} /\ Cardinality(dividers) = 2
       ELSE /\ Cardinality(at) = 1 /\ Cardinality(dividers) = 3
            /\ \A i \in at :
                 /\ doc[i - 1].role = "divider"
                 /\ Len(doc[i].fields) = (IF n > 15 THEN 15 ELSE n)
                 /\ \A k \in 1..Len(doc[i].fields) :
                      doc[i].fields[k].name = eew.areas[k].name
                 /\ doc[i].more = (IF n > 15 THEN n - 15 ELSE 0)

C19_Witness ==
  /\ call.op = "formatEEWMessage" /\ ~call.out.threw
  /\ ~call.data.cancelled
  /\ Len(call.data.areas) = 16
  /\ \E i \in 1..Len(call.out.blocks) :
       /\ call.out.blocks[i].role = "areas"
       /\ call.out.blocks[i].more = 1
       /\ Len(call.out.blocks[i].fields) = 15
       /\ call.out.blocks[i].fields[15].name = "15"

\* C20 as stated: a rendered area whose bounds coincide shows one intensity
\* value; every other area, a bound of 0 or an absent bound included, shows
\* both bounds joined by the range marker.
C20_RangeShowsBothBoundsUnlessEqual ==
  (call.op = "formatEEWMessage" /\ ~call.out.threw) =>
    \A i \in 1..Len(call.out.blocks) :
      call.out.blocks[i].role = "areas" =>
        \A k \in 1..Len(call.out.blocks[i].fields) :
          LET area == call.data.areas[k]
              text == call.out.blocks[i].fields[k].text
          IN IF area.scaleFrom = area.scaleTo
             THEN text = <<intensityToString(area.scaleFrom)>>
             ELSE text = <<intensityToString(area.scaleFrom), "~",
                           intensityToString(area.scaleTo)>>

\* the lines of the key-facts field list of a document, <<>> if it has none
FactLines(doc) ==
  IF \E i \in 1..Len(doc) : doc[i].role = "fields"
  THEN doc[CHOOSE i \in 1..Len(doc) : doc[i].role = "fields"].fields
  ELSE <<>>

HasLine(lines, labels) == \E i \in 1..Len(lines) : lines[i] \in labels

\* the hypocenter of the event a builder was called with, <<>> if absent
HypocenterOf(c) ==
  IF c.op = "formatQuakeMessage" THEN c.data.earthquake[1].hypocenter
  ELSE IF c.data.earthquake = None THEN None
  ELSE c.data.earthquake[1].hypocenter

\* C21 as stated: in the key facts of the quake and of the early-warning
\* document, a name, magnitude or depth line appears only if the field is
\* present; a magnitude or depth holding a value is shown, and one holding
\* the unknown sentinel (a negative number) is shown with the unknown label.
C21_KeyFactsOmissionPolicy ==
  (call.op \in {"formatQuakeMessage", "formatEEWMessage"} /\ ~call.out.threw) =>
    LET lines == FactLines(call.out.blocks)
        h == HypocenterOf(call)
        name == IF h = None THEN None ELSE h[1].name
        magnitude == IF h = None THEN Undefined ELSE h[1].magnitude
        depth == IF h = None THEN Undefined ELSE h[1].depth
        Policy(v, valueLabels, unknownLabels) ==
          /\ v = Undefined =>
               (~HasLine(lines, valueLabels) /\ ~HasLine(lines, unknownLabels))
          /\ (v.type = "number" /\ v.num >= 0) =>
               (HasLine(lines, valueLabels) /\ ~HasLine(lines, unknownLabels))
          /\ (v.type = "number" /\ v.num < 0) =>
               (HasLine(lines, unknownLabels) /\ ~HasLine(lines, valueLabels))
    IN /\ HasLine(lines, {"Epicenter", "shingenchi"}) <=> name # None
       /\ Policy(magnitude, {"Magnitude", "magnitude"}, {"Magnitude Unknown"})
       /\ Policy(depth, {"Depth", "fukasa"}, {"Depth Unknown"})

\* C22: the document of a cancelled tsunami event is the document of the same
\* event with cancelled = false with one cancellation notice put directly
\* after the first divider, before every area; the document of an event that
\* is not cancelled has no notice.
C22_CancelledTsunamiAddsOneNotice ==
  (call.op = "formatTsunamiMessage" /\ ~call.out.threw) =>
    LET doc == call.out.blocks
        plain == formatTsunamiMessage([call.data EXCEPT !.cancelled = FALSE]).blocks
        notices == {i \in 1..Len(doc) : doc[i].role = "cancelled"}
    IN IF call.data.cancelled
       THEN /\ notices = {4}
            /\ doc[3].role = "divider"
            /\ \A i \in 1..Len(doc) : doc[i].role = "area" => i > 4
            /\ SubSeq(doc, 1, 3) \o SubSeq(doc, 5, Len(doc)) = plain
            /\ Len(plain) = 5 + Len(call.data.areas)
       ELSE notices = {} /\ doc = plain

C22_Witness ==
  /\ call.op = "formatTsunamiMessage" /\ ~call.out.threw
  /\ call.data.cancelled /\ Len(call.data.areas) = 1
  /\ [i \in 1..Len(call.out.blocks) |-> call.out.blocks[i].role] =
       <<"header", "summary", "divider", "cancelled", "area", "divider", "footer">>

\* C26: the tsunami document of an event with n areas has 5 + n fragments,
\* one more if cancelled: each area has its own fragment, in the order of the
\* areas, and no number of areas is cut short, neither at 10 nor at 15.
C26_TsunamiAreasAreNeverCapped ==
  (call.op = "formatTsunamiMessage" /\ ~call.out.threw) =>
    LET doc == call.out.blocks
        n == Len(call.data.areas)
        first == IF call.data.cancelled THEN 4 ELSE 3
    IN /\ Len(doc) = 5 + n + (IF call.data.cancelled THEN 1 ELSE 0)
       /\ \A k \in 1..n :
            /\ doc[first + k].role = "area"
            /\ doc[first + k].fields[1] = call.data.areas[k][1].name
            /\ doc[first + k].more = 0
       /\ Cardinality({i \in 1..Len(doc) : doc[i].role = "area"}) = n

C26_Witness ==
  /\ call.op = "formatTsunamiMessage" /\ ~call.out.threw
  /\ Len(call.data.areas) = 16
  /\ Len(call.out.blocks) = 21
  /\ call.out.blocks[19].fields[1] = "16"

\* C23: the connection changes state only from Disconnected to Connecting,
\* from Connecting to Connected and from Connected to Disconnected (a failed
\* handshake, on which the process exits, also ends Connecting); connect is
\* called at most once, from Disconnected, never after a connection was
\* opened, closed or disconnected; a transport error on the open connection
\* is logged and changes nothing else: no exit, no disconnect call.
C23_ConnectionLifecycle ==
  /\ [][(client # None /\ client' # None /\ client'[1].conn # client[1].conn) =>
          \/ <<client[1].conn, client'[1].conn>> \in
               { <<"Disconnected", "Connecting">>, <<"Connecting", "Connected">>,
                 <<"Connected", "Disconnected">> }
          \/ /\ client[1].conn = "Connecting" /\ client'[1].conn = "Disconnected"
             /\ client'[1].connect = "rejected" /\ pc' = "exited"]_vars
  /\ [](Count(calls, "connect") <= 1)
  /\ [][Count(calls', "connect") > Count(calls, "connect") =>
          /\ client[1].conn = "Disconnected" /\ client[1].connect = "none"
          /\ Count(calls, "disconnect") = 0
          /\ client'[1].conn = "Connecting"]_vars
  /\ [][(client # None /\ client[1].conn = "Connected"
          /\ ErrorEntry("P2PQuake WebSocket error") \notin log
          /\ ErrorEntry("P2PQuake WebSocket error") \in log') =>
          /\ pc' = pc /\ exitCode' = exitCode
          /\ calls' = calls /\ client' = client]_vars

C23_Witness ==
  /\ pc = "running"
  /\ client[1].connect = "resolved" /\ client[1].conn = "Disconnected"
  /\ ErrorEntry("P2PQuake WebSocket error") \in log
  /\ Count(calls, "connect") = 1 /\ Count(calls, "disconnect") = 0

\* C24: connect is called only after onQuake, onTsunami and onEEW, in that
\* order; while the connection is being opened or is open every category has
\* its handler, and every frame dispatched was given to main()'s handler.
C24_HandlersRegisteredBeforeConnect ==
  /\ Count(calls, "connect") > 0 =>
       (Len(calls) >= 4 /\ SubSeq(calls, 1, 4) = <<"onQuake", "onTsunami", "onEEW", "connect">>)
  /\ (client # None /\ client[1].conn \in {"Connecting", "Connected"}) =>
       \A cat \in Categories : handlers[cat] = "main"
  /\ \A i \in 1..Len(events) :
       events[i].handler = "main" /\ events[i].st # "ignored"

C24_Witness ==
  /\ Len(events) = 1
  /\ events[1].cat = 556 /\ events[1].handler = "main" /\ events[1].st = "sent"
  /\ pc = "running"

\* C25: a process that has exited with a status other than 0 never completed
\* its startup (its connect had not resolved) and had handled no event; a
\* process that exited after its connect resolved did so on a termination
\* signal or an uncaught exception, called disconnect once and then exited
\* with status 0; no step that dispatches or settles an event changes the
\* position or the exit status of the process.
C25_ExitStatusByPhase ==
  /\ []((pc = "exited" /\ exitCode # Some(0)) =>
          /\ exitCode # None
          /\ client = None \/ client[1].connect # "resolved"
          /\ events = <<>>)
  /\ []((pc = "exited" /\ client # None /\ client[1].connect = "resolved") =>
          /\ exitCode = Some(0)
          /\ signal # None \/ fault = Some("uncaughtException")
          /\ Count(calls, "disconnect") = 1
          /\ EndsWith(calls, <<"disconnect", "process.exit">>))
  /\ [][events' # events => (pc' = pc /\ exitCode' = exitCode)]_vars

C25_Witness ==
  /\ pc = "exited" /\ exitCode = Some(0)
  /\ fault = Some("uncaughtException")
  /\ Len(events) = 1 /\ events[1].st = "dropped"
  /\ EndsWith(calls, <<"disconnect", "process.exit">>)
====
